---- MODULE Spec2Model ----
(***************************************************************************)
(* Job orchestration of information-summary: the cron-fired job_wrapper of *)
(* Repository.add_jobs_to_scheduler (fetch -> generate -> push, with the   *)
(* last_run_times watermark map) and the auto_retry_on_rate_limit wrapper  *)
(* of the hosting-API clients.                                             *)
(*                                                                         *)
(* Spec      : the scheduler firing the jobs of one Repository.            *)
(* SpecRetry : one call of a function wrapped by auto_retry_on_rate_limit. *)
(***************************************************************************)
EXTENDS Integers, Sequences, FiniteSets, TLC

(* ---------------------------- bounds ---------------------------------- *)
\* the clock of Spec runs over 0..MaxClock (unit: one day)
MaxClock == 2
\* SpecRetry: largest max_retries the wrapper is built with
MaxMaxRetries == 2
\* SpecRetry: longest duration of one call of the wrapped function (seconds)
MaxCallDur == 1

(* ------------------------ program constants --------------------------- *)
\* timedelta(days=7): the default look-back of a job's first run
Lookback == 7
\* mutant of MaxInstances: two instances of a job id may run
TwoInstances == 1 + 1

\* scheduler.add_job(...) is called without max_instances: APScheduler's
\* default of one running instance per job id applies
MaxInstances == 1

\* the job names of the Repository's jobs mapping
Jobs == {"commits_daily", "issues_daily"}

VARIABLES
    now,             \* Spec: datetime.now(timezone.utc), in days
    last_run_times,  \* Spec: Repository.last_run_times, a dict job_name -> instant
    tasks,           \* Spec: the job_wrapper coroutines in flight
    instances,       \* Spec: running instances per job id, as the executor counts them
    last,            \* Spec: what the most recently finished invocation of each job did
    skipped,         \* Spec: the jobs that had a fire event skipped (instance limit reached)
    push_service,    \* Spec: whether add_jobs_to_scheduler was given a push service
    max_retries,     \* SpecRetry: decorator argument
    base_delay,      \* SpecRetry: decorator argument (seconds)
    backoff_factor,  \* SpecRetry: decorator argument
    retries,         \* SpecRetry: the wrapper's local counter
    rpc,             \* SpecRetry: "call" | "returned" | "raised"
    calls,           \* SpecRetry: invocations of the wrapped function so far
    errors,          \* SpecRetry: the exceptions the wrapped function raised, in order
    slept,           \* SpecRetry: the asyncio.sleep calls made, in order
    raised,          \* SpecRetry: the exception that left the wrapper, if any
    rnow,            \* SpecRetry: datetime.now(), in seconds
    client,          \* SpecRetry, SpecClient: the client class whose method is called
    owner,           \* Repository.owner
    repo,            \* Repository.repo
    commits,         \* SpecDiff: the commits the host returns, newest first
    commits_data,    \* SpecDiff: the lines of the fetched text
    line_no,         \* SpecDiff: the position of the loop in commits_data
    commit,          \* SpecDiff: the loop variable, as the last iteration left it
    commit_sha,      \* SpecDiff
    parent_sha,      \* SpecDiff
    compare_calls,   \* SpecDiff: the calls of client.compare_two_commits
    analysis_calls,  \* SpecDiff: the calls of self.generate(analysis_prompt, diff)
    final_input,     \* SpecDiff: the lines given to the final self.generate
    dpc,             \* SpecDiff: "idle" | "fetch" | "loop" | "done" | "raised"
    sched,           \* the scheduler's state: "running" | "paused" | "stopped"
    registered,      \* the job names the scheduler holds
    pause_req,       \* SpecSched: job names given to `scheduler pause` and not resumed since
    at_shutdown,     \* SpecSched: the jobs that had an invocation in flight at shutdown
    jobs_cfg,        \* SpecRegister: Repository.jobs, in mapping order
    reg_pc,          \* SpecRegister: "start" | "done" | "raised"
    prompt,          \* SpecParse: the tokens of the prompt, prompt.split(" ")
    result           \* SpecParse: what CommandParser.parse did with the prompt

jobVars == <<now, last_run_times, tasks, instances, last, skipped, push_service>>
retryVars == <<max_retries, base_delay, backoff_factor, retries, rpc, calls,
               errors, slept, raised, rnow, client>>
repoVars == <<owner, repo>>
diffVars == <<commits, commits_data, line_no, commit, commit_sha, parent_sha,
              compare_calls, analysis_calls, final_input, dpc>>
ctlVars == <<sched, registered, pause_req, at_shutdown>>
regVars == <<jobs_cfg, reg_pc>>
parseVars == <<prompt, result>>
nonJobVars == <<retryVars, repoVars, diffVars, ctlVars, regVars, parseVars>>
nonRetryVars == <<jobVars, repoVars, diffVars, ctlVars, regVars, parseVars>>
vars == <<jobVars, retryVars, repoVars, diffVars, ctlVars, regVars, parseVars>>

(* ------------------------------ dicts --------------------------------- *)
\* dict.get(k, default)
Get(d, k, default) == IF k \in DOMAIN d THEN d[k] ELSE default

\* mutant of DictSet: the dict is rebuilt with the one key
DictReset(d, k, v) == [x \in {k} |-> v]

\* d[k] = v
DictSet(d, k, v) == [x \in (DOMAIN d) \cup {k} |-> IF x = k THEN v ELSE d[x]]

\* the watermark of job j as a set: empty when the key is absent
WM(j) == IF j \in DOMAIN last_run_times THEN {last_run_times[j]} ELSE {}

(* ===================== Spec: the scheduled jobs ======================= *)

\* mutant of Since: the stored watermark is ignored
SinceDefaultOnly(d, j, now_) == now_ - Lookback

\* line 60: last_run = self.last_run_times.get(job_name, now - timedelta(days=7))
Since(d, j, now_) == Get(d, j, now_ - Lookback)

\* mutant of CommittedWatermark: the window's start is stored again
StoreLastRun(now_, last_run) == last_run

\* line 61: self.last_run_times[job_name] = now
CommittedWatermark(now_, last_run) == now_

NoRun == [outcome |-> "none", start |-> 0, fetched |-> "none", generates |-> 0,
          pushes |-> 0, late |-> FALSE, summary |-> {}, pushed |-> << >>]

\* line 95: f"Repository {self.owner}/{self.repo} - Job {job_name} Result",
\* as the sequence of its literal and substituted parts
TitleWithoutJob(owner_, repo_, job_name) ==
    <<"Repository ", owner_, "/", repo_, " - Job Result">>
Title(owner_, repo_, job_name) ==
    <<"Repository ", owner_, "/", repo_, " - Job ", job_name, " Result">>

\* line 95: await push_service(title=..., content=result), seen from task t
PushCall(t) ==
    [title |-> Title(owner, repo, t.job), content |-> CHOOSE c \in t.summary : TRUE]

\* the scheduler processes the triggers of job j: it was started and not
\* paused or shut down since, and holds the job
Scheduled(j) == sched = "running" /\ j \in registered

\* the state the variables of the other specifications rest in
RepoIdle == owner = "rrtt217" /\ repo = "information-summary"
DiffIdle ==
    /\ commits = << >> /\ commits_data = << >> /\ line_no = 0 /\ commit = << >>
    /\ commit_sha = << >> /\ parent_sha = << >>
    /\ compare_calls = << >> /\ analysis_calls = << >>
    /\ final_input = {} /\ dpc = "idle"
CtlIdle ==
    sched = "running" /\ registered = Jobs /\ pause_req = {} /\ at_shutdown = {}
RegIdle == jobs_cfg = << >> /\ reg_pc = "done"
ParseIdle == prompt = << >> /\ result = [kind |-> "idle"]

InitJobs ==
    /\ now = 0
    /\ last_run_times = << >>
    /\ tasks = {}
    /\ instances = [j \in Jobs |-> 0]
    /\ last = [j \in Jobs |-> NoRun]
    /\ skipped = {}
    /\ push_service \in BOOLEAN

\* the wall clock advances
Tick ==
    /\ now < MaxClock
    /\ now' = now + 1
    /\ UNCHANGED <<last_run_times, tasks, instances, last, skipped, push_service,
                   nonJobVars>>

\* The cron trigger of job j fires and the executor has a free instance:
\* job_wrapper starts and runs to its first await (lines 58-89).
Fire(j) ==
    /\ Scheduled(j)
    /\ instances[j] < MaxInstances
    /\ LET now_ == now
           last_run == Since(last_run_times, j, now_)
       IN /\ last_run_times' =
                 DictSet(last_run_times, j, CommittedWatermark(now_, last_run))
          /\ tasks' = tasks \cup
                 {[job |-> j, now |-> now_, last_run |-> last_run, before |-> WM(j),
                   pc |-> "fetch", fetched |-> "none", generates |-> 0,
                   pushes |-> 0, summary |-> {}, pushed |-> << >>]}
    /\ instances' = [instances EXCEPT ![j] = @ + 1]
    /\ UNCHANGED <<now, last, skipped, push_service, nonJobVars>>

\* The cron trigger of job j fires while the job already runs MaxInstances
\* instances: the scheduler logs a warning and skips the run.
FireDropped(j) ==
    /\ Scheduled(j)
    /\ instances[j] >= MaxInstances
    /\ skipped' = skipped \cup {j}
    /\ UNCHANGED <<now, last_run_times, tasks, instances, last, push_service,
                   nonJobVars>>

\* task t continues as record u
Step(t, u) ==
    /\ tasks' = (tasks \ {t}) \cup {u}
    /\ UNCHANGED <<now, last_run_times, instances, last, skipped, push_service,
                   nonJobVars>>

\* a job_wrapper whose exception takes every running invocation down with it
FinishUnisolated(t, u, outcome) ==
    /\ tasks' = IF outcome = "ok" THEN tasks \ {t} ELSE {}
    /\ instances' = IF outcome = "ok" THEN [instances EXCEPT ![t.job] = @ - 1]
                                      ELSE [j \in Jobs |-> 0]
    /\ last' = [last EXCEPT ![t.job] =
                   [outcome |-> outcome, start |-> u.now, fetched |-> u.fetched,
                    generates |-> u.generates, pushes |-> u.pushes,
                    late |-> now > u.now, summary |-> u.summary,
                    pushed |-> u.pushed]]
    /\ UNCHANGED <<now, last_run_times, skipped, push_service, nonJobVars>>

\* job_wrapper of task t returns or raises, having become u: the executor
\* releases the instance
Finish(t, u, outcome) ==
    /\ tasks' = tasks \ {t}
    /\ instances' = [instances EXCEPT ![t.job] = @ - 1]
    /\ last' = [last EXCEPT ![t.job] =
                   [outcome |-> outcome, start |-> u.now, fetched |-> u.fetched,
                    generates |-> u.generates, pushes |-> u.pushes,
                    late |-> now > u.now, summary |-> u.summary,
                    pushed |-> u.pushed]]
    /\ UNCHANGED <<now, last_run_times, skipped, push_service, nonJobVars>>

\* client.get_*_since returns its text (empty when nothing happened since
\* `since`); the processor goes on to self.generate without looking at it
FetchOk(t, text) ==
    /\ t.pc = "fetch"
    /\ Step(t, [t EXCEPT !.pc = "generate", !.fetched = text])

\* client.get_*_since raises (Exception for a status other than 200 and 429,
\* RateLimitException once the retries are used up): nothing catches it
FetchRaises(t) ==
    /\ t.pc = "fetch"
    /\ Finish(t, t, "fetch_error")

\* self.generate returns the summary
GenerateOk(t, summary) ==
    /\ t.pc = "generate"
    /\ LET u == [t EXCEPT !.generates = @ + 1, !.summary = {summary}]
       IN IF push_service
             THEN Step(t, [u EXCEPT !.pc = "push"])
             ELSE Finish(t, u, "ok")

\* a generate that is called a second time after it raised
GenerateFailsRetried(t) ==
    /\ t.pc = "generate"
    /\ IF t.generates = 0
          THEN Step(t, [t EXCEPT !.generates = @ + 1])
          ELSE Finish(t, [t EXCEPT !.generates = @ + 1], "generate_error")

\* self.generate raises
GenerateFails(t) ==
    /\ t.pc = "generate"
    /\ Finish(t, [t EXCEPT !.generates = @ + 1], "generate_error")

\* push_service(title, content) returns
PushOk(t) ==
    /\ t.pc = "push"
    /\ Finish(t, [t EXCEPT !.pushes = @ + 1, !.pushed = Append(@, PushCall(t))], "ok")

\* push_service(title, content) raises
PushFails(t) ==
    /\ t.pc = "push"
    /\ Finish(t, [t EXCEPT !.pushes = @ + 1, !.pushed = Append(@, PushCall(t))],
              "push_error")

Next ==
    \/ Tick
    \/ \E j \in Jobs : Fire(j)
    \/ \E j \in Jobs : FireDropped(j)
    \/ \E t \in tasks, text \in {"empty", "nonempty"} : FetchOk(t, text)
    \/ \E t \in tasks : FetchRaises(t)
    \/ \E t \in tasks : GenerateOk(t, "summary")
    \/ \E t \in tasks : GenerateFails(t)
    \/ \E t \in tasks : PushOk(t)
    \/ \E t \in tasks : PushFails(t)

(* =============== SpecRetry: auto_retry_on_rate_limit ================== *)

\* decorator arguments the model tries (base_delay and backoff_factor)
BaseDelays == {1, 2}
BackoffFactors == {1, 2}
\* reset_time of a RateLimitException, relative to the instant it is handled
ResetOffsets == {-1, 0, 1, 30}

RECURSIVE Pow(_, _)
Pow(b, e) == IF e = 0 THEN 1 ELSE b * Pow(b, e - 1)

Max(a, b) == IF a >= b THEN a ELSE b

\* mutant of Caught: except Exception
CaughtAll(kind) == TRUE

\* line 94: except RateLimitException as e
Caught(kind) == kind = "rate_limit"

\* whether the fetch methods of the client class carry
\* @auto_retry_on_rate_limit(): GitHubClient's do, GitLabClient's do not
Decorated(c) == c = "github"

\* mutant of Exhausted: one retry more before giving up
ExhaustedLate(retries_, max_retries_) == retries_ > max_retries_

\* line 95: if retries >= max_retries: raise e
Exhausted(retries_, max_retries_) == retries_ >= max_retries_

\* mutant of Delay: the server's reset instant is ignored
DelayBackoffOnly(base_delay_, backoff_factor_, retries_, reset_time, now_) ==
    base_delay_ * Pow(backoff_factor_, retries_)

\* lines 98-104: the delay slept before the next call; reset_time is the
\* exception's reset_time as a set (empty for None), now_ is datetime.now()
Delay(base_delay_, backoff_factor_, retries_, reset_time, now_) ==
    LET delay == base_delay_ * Pow(backoff_factor_, retries_)
    IN IF reset_time # {} /\ (\E r \in reset_time : r > now_)
          THEN Max(delay, (CHOOSE r \in reset_time : TRUE) - now_)
          ELSE delay

RetryIdle ==
    /\ max_retries = 0
    /\ base_delay = 1
    /\ backoff_factor = 1
    /\ retries = 0
    /\ rpc = "idle"
    /\ calls = 0
    /\ errors = << >>
    /\ slept = << >>
    /\ raised = {}
    /\ rnow = 0
    /\ client = "github"

\* wrapper(*args, **kwargs) is entered: retries = 0
WrapperEntry ==
    /\ max_retries \in 0..MaxMaxRetries
    /\ base_delay \in BaseDelays
    /\ backoff_factor \in BackoffFactors
    /\ retries = 0
    /\ rpc = "call"
    /\ calls = 0
    /\ errors = << >>
    /\ slept = << >>
    /\ raised = {}
    /\ rnow = 0
    /\ client = "github"

\* line 93: await func(...) returns after dur seconds
FuncReturns(dur) ==
    /\ rpc = "call"
    /\ calls' = calls + 1
    /\ rnow' = rnow + dur
    /\ rpc' = "returned"
    /\ UNCHANGED <<max_retries, base_delay, backoff_factor, retries, errors,
                   slept, raised, client, nonRetryVars>>

\* lines 92-114: await func(...) raises e at now_. A RateLimitException in a
\* decorated method is handled by the except clause (re-raised once the
\* retries are used up, else slept on and retried); anything else leaves the
\* call as it is.
FuncRaises(e, now_) ==
    /\ rpc = "call"
    /\ calls' = calls + 1
    /\ errors' = Append(errors, e)
    /\ IF Decorated(client) /\ Caught(e.kind) /\ ~Exhausted(retries, max_retries)
          THEN LET delay == Delay(base_delay, backoff_factor, retries,
                                  e.reset_time, now_)
               IN /\ slept' = Append(slept,
                         [delay |-> delay, reset_time |-> e.reset_time,
                          at |-> now_])
                  /\ rnow' = now_ + delay
                  /\ retries' = retries + 1
                  \* line 91: while retries <= max_retries
                  /\ rpc' = IF retries + 1 <= max_retries
                               THEN "call" ELSE "returned"
                  /\ UNCHANGED raised
          ELSE /\ raised' = {e}
               /\ rpc' = "raised"
               /\ rnow' = now_
               /\ UNCHANGED <<retries, slept>>
    /\ UNCHANGED <<max_retries, base_delay, backoff_factor, client, nonRetryVars>>

\* await func(...) raises RateLimitException after dur seconds, its
\* reset_time off seconds from then (reset_time None: hasReset false)
FuncRateLimited(dur, hasReset, off) ==
    LET now_ == rnow + dur
        reset_time == IF hasReset THEN {now_ + off} ELSE {}
    IN FuncRaises([kind |-> "rate_limit", reset_time |-> reset_time,
                   call |-> calls + 1], now_)

\* await func(...) raises an exception that is no RateLimitException
FuncFails(dur) ==
    FuncRaises([kind |-> "other", reset_time |-> {}, call |-> calls + 1],
               rnow + dur)

NextRetry ==
    \/ \E dur \in 0..MaxCallDur : FuncReturns(dur)
    \/ \E dur \in 0..MaxCallDur, hasReset \in BOOLEAN, off \in ResetOffsets :
          FuncRateLimited(dur, hasReset, off)
    \/ \E dur \in 0..MaxCallDur : FuncFails(dur)

(* ------------------------- specifications ----------------------------- *)
Init == InitJobs /\ RetryIdle /\ RepoIdle /\ DiffIdle /\ CtlIdle /\ RegIdle /\ ParseIdle

Spec == Init /\ [][Next]_vars

InitRetry ==
    /\ InitJobs /\ push_service = TRUE /\ WrapperEntry
    /\ RepoIdle /\ DiffIdle /\ CtlIdle /\ RegIdle /\ ParseIdle

SpecRetry == InitRetry /\ [][NextRetry]_vars

\* auto_retry_on_rate_limit(): the defaults the clients' methods are decorated with
DefaultMaxRetries == 3
DefaultBaseDelay == 1
DefaultBackoffFactor == 2

\* a fetch method of either client class is called by a job
InitClient ==
    /\ InitJobs /\ push_service = TRUE
    /\ RepoIdle /\ DiffIdle /\ CtlIdle /\ RegIdle /\ ParseIdle
    /\ client \in {"github", "gitlab"}
    /\ max_retries = DefaultMaxRetries
    /\ base_delay = DefaultBaseDelay
    /\ backoff_factor = DefaultBackoffFactor
    /\ retries = 0
    /\ rpc = "call"
    /\ calls = 0
    /\ errors = << >>
    /\ slept = << >>
    /\ raised = {}
    /\ rnow = 0

SpecClient == InitClient /\ [][NextRetry]_vars

(* ============================ claims: Spec ============================ *)

TasksOf(j) == {t \in tasks : t.job = j}

\* the step ends invocation t with the given outcome
FinishedWith(t, outcome) ==
    /\ t \in tasks
    /\ t \notin tasks'
    /\ instances'[t.job] < instances[t.job]
    /\ last'[t.job].outcome = outcome

\* C1: when the fetch of an invocation raises, the job's watermark after the
\* invocation equals its watermark before the invocation (absent stays absent).
C1_FetchErrorKeepsWatermark ==
    [][\A t \in tasks :
          FinishedWith(t, "fetch_error") => WM(t.job)' = t.before]_vars

\* C2: when generate raises after a successful fetch, the job's watermark after
\* the invocation equals its watermark before the invocation.
C2_GenerateErrorKeepsWatermark ==
    [][\A t \in tasks :
          FinishedWith(t, "generate_error") => WM(t.job)' = t.before]_vars

\* C3: after an invocation that fetched, summarized and delivered, the job's
\* watermark is the instant captured at the start of that invocation, also
\* when the clock moved on before it completed.
C3_WatermarkIsInvocationStart ==
    \A j \in Jobs :
        (last[j].outcome = "ok" /\ last[j].pushes = 1 /\ TasksOf(j) = {})
            => WM(j) = {last[j].start}

C3_Witness ==
    \E j \in Jobs :
        /\ last[j].outcome = "ok" /\ last[j].pushes = 1 /\ TasksOf(j) = {}
        /\ last[j].late
        /\ WM(j) = {last[j].start}
        /\ last[j].start < now

\* C4: at most one invocation per job id is in flight, and a fire event that
\* arrives while the job runs is skipped: it starts no invocation and changes
\* neither the watermarks nor the running invocations.
C4_OneInvocationPerJob ==
    /\ [](\A j \in Jobs :
             Cardinality(TasksOf(j)) <= 1 /\ instances[j] = Cardinality(TasksOf(j)))
    /\ [][\A j \in Jobs :
             (j \in skipped' /\ j \notin skipped)
                 => /\ TasksOf(j) # {}
                    /\ tasks' = tasks
                    /\ last_run_times' = last_run_times
                    /\ instances' = instances]_vars

C4_Witness ==
    \E j \in skipped : \E t \in tasks : t.job = j /\ t.pc = "push"

\* C5: an invocation whose fetch returned an empty result called neither
\* generate nor the push service.
C5_EmptyFetchSkipsGenerateAndPush ==
    \A j \in Jobs :
        last[j].fetched = "empty" => last[j].generates = 0 /\ last[j].pushes = 0

\* C6: no step replaces a job's watermark with an earlier instant or removes it.
C6_WatermarkMonotonic ==
    [][\A j \in Jobs :
          j \in DOMAIN last_run_times
              => /\ j \in DOMAIN last_run_times'
                 /\ last_run_times'[j] >= last_run_times[j]]_vars

C6_Witness ==
    \E t \in tasks :
        /\ t.before # {}
        /\ \A v \in t.before : v < t.now
        /\ WM(t.job) = {t.now}
        /\ \E j \in Jobs : j # t.job /\ WM(j) # {}

\* C7: when the push raises after fetch and generate succeeded, the watermark
\* is the start of that invocation, and the next invocation of the job fetches
\* since that start.
C7_PushErrorAdvancesWatermark ==
    /\ \A j \in Jobs :
           (last[j].outcome = "push_error" /\ TasksOf(j) = {})
               => WM(j) = {last[j].start}
    /\ \A t \in tasks :
           last[t.job].outcome = "push_error" => t.last_run = last[t.job].start

C7_Witness ==
    \E t \in tasks :
        /\ last[t.job].outcome = "push_error"
        /\ t.last_run = last[t.job].start
        /\ t.now > t.last_run

RateLimitCount ==
    Cardinality({k \in 1..Len(errors) : errors[k].kind = "rate_limit"})

\* C9 (as stated): after max_retries consecutive RateLimitExceptions the error
\* has propagated to the caller and the function is not invoked again.
C9_PropagatesAfterMaxRetries ==
    (RateLimitCount >= 1 /\ RateLimitCount >= max_retries)
        => /\ rpc = "raised"
           /\ raised = {errors[Len(errors)]}
           /\ calls = RateLimitCount

\* C9 (amended): the error propagates after max_retries + 1 consecutive
\* RateLimitExceptions (the first call and max_retries retries) and not
\* before; it is the exception of the last call, unchanged, and by then the
\* function was invoked max_retries + 1 times and max_retries sleeps were made,
\* with no invocation and no sleep after it.
C9_PropagatesAfterMaxRetriesPlusOne ==
    /\ RateLimitCount >= max_retries + 1
           => /\ rpc = "raised"
              /\ raised = {errors[Len(errors)]}
              /\ errors[Len(errors)].kind = "rate_limit"
              /\ errors[Len(errors)].call = max_retries + 1
              /\ calls = max_retries + 1
              /\ Len(slept) = max_retries
    /\ (rpc = "raised" /\ \E e \in raised : e.kind = "rate_limit")
           => RateLimitCount = max_retries + 1

C9_Witness ==
    /\ max_retries = 2
    /\ RateLimitCount = 3
    /\ rpc = "raised"
    /\ raised = {errors[3]}
    /\ Len(slept) = 2

\* C10: the delay slept before retry number k (k = 0 for the first retry) is
\* max(base_delay * backoff_factor^k, reset_time - now) when the exception
\* carries a reset_time in the future and base_delay * backoff_factor^k
\* otherwise; a reset_time 30 s ahead gives a delay of at least 30 s.
C10_RetryDelay ==
    \A i \in 1..Len(slept) :
        LET s == slept[i]
            k == i - 1
            backoff == base_delay * Pow(backoff_factor, k)
        IN /\ \A r \in s.reset_time :
                  s.delay = IF r > s.at THEN Max(backoff, r - s.at) ELSE backoff
           /\ s.reset_time = {} => s.delay = backoff
           /\ s.reset_time = {s.at + 30} => s.delay >= 30

C10_Witness ==
    /\ Len(slept) = 2
    /\ base_delay = 2 /\ backoff_factor = 2
    /\ slept[1].reset_time = {slept[1].at + 30} /\ slept[1].delay = 30
    /\ slept[2].reset_time = {slept[2].at + 1} /\ slept[2].delay = 4

\* C11: an exception of the wrapped function that is no RateLimitException
\* leaves the wrapper at once, whatever the number of retries made before it:
\* it is the last call, the exception raised is that exception, and no sleep
\* follows it.
C11_OtherErrorPropagatesImmediately ==
    \A k \in 1..Len(errors) :
        errors[k].kind = "other"
            => /\ k = Len(errors)
               /\ rpc = "raised"
               /\ raised = {errors[k]}
               /\ calls = k
               /\ Len(slept) = k - 1

C11_Witness ==
    /\ max_retries = 2
    /\ Len(errors) = 2
    /\ errors[1].kind = "rate_limit"
    /\ errors[2].kind = "other"
    /\ retries = 1
    /\ rpc = "raised"

(* ========================= claims: SpecClient ========================= *)

\* C12: for either host kind, a RateLimitException raised by the first call
\* of a fetch is followed by a backoff sleep (and a second call) instead of
\* leaving the fetch.
C12_EveryFetchRetried ==
    (Len(errors) >= 1 /\ errors[1].kind = "rate_limit")
        => /\ Len(slept) >= 1
           /\ \A e \in raised : e.call > 1

(* ===================== claims: Spec (scheduling) ====================== *)

ErrorOutcomes == {"fetch_error", "generate_error", "push_error"}

\* C13: a step in which an invocation of one job ends with an error leaves
\* every other job as it was: its watermark, its invocations in flight, its
\* instance count, the record of its last invocation, and whether the
\* scheduler goes on firing it.
C13_FailureIsolated ==
    [][\A t \in tasks : \A o \in ErrorOutcomes :
          FinishedWith(t, o)
              => \A j \in Jobs \ {t.job} :
                     /\ WM(j)' = WM(j)
                     /\ TasksOf(j)' = TasksOf(j)
                     /\ instances'[j] = instances[j]
                     /\ last'[j] = last[j]
                     /\ Scheduled(j)' = Scheduled(j)]_vars

\* one job failed at the instant it was fired, and the other job was fired
\* after that and went through
C13_Witness ==
    \E j \in Jobs, k \in Jobs :
        /\ j # k
        /\ last[j].outcome \in ErrorOutcomes
        /\ ~last[j].late
        /\ last[k].outcome = "ok"
        /\ last[k].start > last[j].start
        /\ WM(k) = {last[k].start}

(* ================= SpecPush: what the push service gets =============== *)

\* owners, repositories and generate results the model tries
Owners == {"rrtt217", "octocat"}
Repos == {"information-summary", "hello-world"}
Summaries == {"3 commits: parser fixes", "No changes"}

InitPush ==
    /\ InitJobs /\ RetryIdle /\ DiffIdle /\ CtlIdle /\ RegIdle /\ ParseIdle
    /\ owner \in Owners
    /\ repo \in Repos

\* the invocations of one Repository at one instant of the clock
NextPush ==
    \/ \E j \in Jobs : Fire(j)
    \/ \E j \in Jobs : FireDropped(j)
    \/ \E t \in tasks, text \in {"empty", "nonempty"} : FetchOk(t, text)
    \/ \E t \in tasks : FetchRaises(t)
    \/ \E t \in tasks, summary \in Summaries : GenerateOk(t, summary)
    \/ \E t \in tasks : GenerateFails(t)
    \/ \E t \in tasks : PushOk(t)
    \/ \E t \in tasks : PushFails(t)

SpecPush == InitPush /\ [][NextPush]_vars

(* ========================== claims: SpecPush ========================== *)

\* sub occurs in seq as a run of consecutive elements
Contains(seq, sub) ==
    \E i \in 1..(Len(seq) - Len(sub) + 1) : SubSeq(seq, i, i + Len(sub) - 1) = sub

NoJobId == "-"

\* `scheduler pause [jobId]`: the operation is `lambda: scheduler.pause()`.
\* With a trailing token the call of the lambda raises TypeError, which
\* CommandPrompt.run prints; without one the whole scheduler stops processing
\* its jobs (a scheduler that was shut down raises instead).
CmdPause(a) ==
    /\ IF a \in Jobs
          THEN /\ pause_req' = pause_req \cup {a}
               /\ UNCHANGED sched
          ELSE /\ sched' = IF sched = "running" THEN "paused" ELSE sched
               /\ UNCHANGED pause_req
    /\ UNCHANGED <<registered, at_shutdown, jobVars, retryVars, repoVars, diffVars, regVars,
                   parseVars>>

\* `scheduler resume [jobId]`: the operation is `lambda: scheduler.resume()`
CmdResume(a) ==
    /\ IF a \in Jobs
          THEN /\ pause_req' = pause_req \ {a}
               /\ UNCHANGED sched
          ELSE /\ sched' = IF sched = "paused" THEN "running" ELSE sched
               /\ UNCHANGED pause_req
    /\ UNCHANGED <<registered, at_shutdown, jobVars, retryVars, repoVars, diffVars, regVars,
                   parseVars>>

\* a shutdown that cancels the invocations in flight
CmdShutdownCancels ==
    /\ sched # "stopped"
    /\ sched' = "stopped"
    /\ at_shutdown' = {t.job : t \in tasks}
    /\ tasks' = {}
    /\ instances' = [j \in Jobs |-> 0]
    /\ UNCHANGED <<registered, pause_req, now, last_run_times, last, skipped,
                   push_service, retryVars, repoVars, diffVars, regVars, parseVars>>

\* scheduler.shutdown() with its default wait=True, from `scheduler shutdown`
\* or from the handler of KeyboardInterrupt: the scheduler stops processing
\* its jobs and does not interrupt the job functions that are running. The
\* `start` entry of the command tree was built while the scheduler ran and
\* answers "Scheduler is already running", so nothing starts it again.
CmdShutdown ==
    /\ sched # "stopped"
    /\ sched' = "stopped"
    /\ at_shutdown' = {t.job : t \in tasks}
    /\ UNCHANGED <<registered, pause_req, jobVars, retryVars, repoVars, diffVars, regVars,
                   parseVars>>

\* reload(newJobDefinitions): the Repository's jobs become S and registration
\* runs again. add_jobs_to_scheduler keeps self.last_run_times when the
\* attribute exists, and nothing removes a key from it.
Reload(S) ==
    /\ S # registered
    /\ registered' = S
    /\ UNCHANGED <<sched, pause_req, at_shutdown, jobVars, retryVars, repoVars, diffVars,
                   regVars, parseVars>>

InitSched ==
    /\ InitJobs /\ push_service = TRUE
    /\ RetryIdle /\ RepoIdle /\ DiffIdle /\ CtlIdle /\ RegIdle /\ ParseIdle

NextSched ==
    \/ \E j \in Jobs : Fire(j)
    \/ \E j \in Jobs : FireDropped(j)
    \/ \E t \in tasks, text \in {"empty", "nonempty"} : FetchOk(t, text)
    \/ \E t \in tasks : FetchRaises(t)
    \/ \E t \in tasks : GenerateOk(t, "summary")
    \/ \E t \in tasks : GenerateFails(t)
    \/ \E t \in tasks : PushOk(t)
    \/ \E t \in tasks : PushFails(t)
    \/ \E a \in Jobs \cup {NoJobId} : CmdPause(a)
    \/ \E a \in Jobs \cup {NoJobId} : CmdResume(a)
    \/ CmdShutdown
    \/ \E S \in SUBSET Jobs : Reload(S)

SpecSched == InitSched /\ [][NextSched]_vars

(* ========================== claims: SpecSched ========================= *)

CanFire(j) == ENABLED Fire(j)

\* C17: a job id named in a pause and not resumed since is not fired, and the
\* pause of one job id leaves every other job id fired as before: a registered
\* job that was not paused, on a scheduler that was not shut down, with a free
\* instance, is fired.
C17_PauseStopsNamedJobOnly ==
    \A j \in Jobs :
        /\ j \in pause_req => ~CanFire(j)
        /\ (/\ j \notin pause_req
            /\ j \in registered
            /\ sched # "stopped"
            /\ instances[j] < MaxInstances) => CanFire(j)

JobKinds == {"commits", "issues", "pull_requests"}

\* cron expressions the model tries, as the fields expr.split() gives: a
\* well-formed one, one with the wrong number of fields, one with a field
\* that is no cron field, and the empty string
Crons == {<<"0", "8", "*", "*", "*">>, <<"every", "day">>,
          <<"0", "8", "*", "*", "x">>, << >>}
Types == JobKinds \cup {"releases"}

\* job_config mappings: with both keys, without "cron", without "type"
JobConfigs ==
    {[cron |-> c, type |-> k] : c \in Crons, k \in Types}
        \cup {[type |-> k] : k \in Types}
        \cup {[cron |-> c] : c \in Crons}

\* Repository.jobs: job names with their job_config, in mapping order
\* the job names of a Repository with three jobs
JobNames == Jobs \cup {"pulls_daily"}
\* the orders in which one, two or three of the names stand in the mapping
NameOrders ==
    {<<j>> : j \in JobNames}
        \cup {p \in JobNames \X JobNames : p[1] # p[2]}
        \cup {p \in JobNames \X JobNames \X JobNames :
                  p[1] # p[2] /\ p[1] # p[3] /\ p[2] # p[3]}

\* Repository.jobs: the names in order o with the job_configs c
JobMapping(o, c) == [i \in 1..Len(o) |-> [name |-> o[i], cfg |-> c[i]]]

\* lines 44-45: cron_expr = job_config.get("cron"); if not cron_expr
HasCron(cfg) == "cron" \in DOMAIN cfg /\ cfg.cron # << >>

\* a check of the job type that lets every job_config through
AnyType(cfg) == TRUE

\* lines 49-50: job_type = job_config.get("type");
\* if not job_type or job_type not in job_func_map
KnownType(cfg) == "type" \in DOMAIN cfg /\ cfg.type \in JobKinds

\* line 102: CronTrigger.from_crontab(cron_expr) takes five fields, each a
\* cron field expression, and raises ValueError otherwise
CronField(f) == f \in {"0", "8", "*"}
CronParses(c) == Len(c) = 5 /\ \A i \in 1..5 : CronField(c[i])

\* lines 43-106: the loop over self.jobs from position i on, with the job
\* names already added to the scheduler
RECURSIVE AddJobs(_, _, _)
AddJobs(mapping, i, added) ==
    IF i > Len(mapping) THEN [registered |-> added, pc |-> "done"]
    ELSE LET job_name == mapping[i].name
             job_config == mapping[i].cfg
         IN IF ~HasCron(job_config) THEN AddJobs(mapping, i + 1, added)
            ELSE IF ~KnownType(job_config) THEN AddJobs(mapping, i + 1, added)
            ELSE IF ~CronParses(job_config.cron)
                    THEN [registered |-> added, pc |-> "raised"]
            ELSE AddJobs(mapping, i + 1, added \cup {job_name})

\* repository.add_jobs_to_scheduler(scheduler, processor, push)
AddJobsToScheduler ==
    /\ reg_pc = "start"
    /\ LET r == AddJobs(jobs_cfg, 1, registered)
       IN /\ registered' = r.registered
          /\ reg_pc' = r.pc
    /\ UNCHANGED <<jobs_cfg, sched, pause_req, at_shutdown, jobVars, retryVars,
                   repoVars, diffVars, parseVars>>

\* main.py line 165, reached when no registration raised: scheduler.start()
SchedulerStart ==
    /\ reg_pc = "done"
    /\ sched = "stopped"
    /\ sched' = "running"
    /\ UNCHANGED <<registered, pause_req, at_shutdown, jobVars, retryVars, repoVars, diffVars,
                   regVars, parseVars>>

\* a Repository was constructed from the configuration; the scheduler was
\* created and holds no job
InitRegister ==
    /\ InitJobs /\ push_service = TRUE
    /\ RetryIdle /\ RepoIdle /\ DiffIdle /\ ParseIdle
    /\ sched = "stopped" /\ registered = {} /\ pause_req = {} /\ at_shutdown = {}
    /\ \E o \in NameOrders : \E c \in [1..Len(o) -> JobConfigs] :
           jobs_cfg = JobMapping(o, c)
    /\ reg_pc = "start"

NextRegister == AddJobsToScheduler \/ SchedulerStart

SpecRegister == InitRegister /\ [][NextRegister]_vars

(* ======================== claims: SpecRegister ======================== *)

\* the job definition has no cron expression, or one that is malformed, or a
\* job kind that is none of commits, issues, pull_requests
InvalidJob(cfg) ==
    \/ "cron" \notin DOMAIN cfg
    \/ ~CronParses(cfg.cron)
    \/ "type" \notin DOMAIN cfg
    \/ cfg.type \notin {"commits", "issues", "pull_requests"}

MaxTokens == 4

\* the tokens the model builds prompts from: keys of the command tree, a plain
\* word, the empty token two adjacent spaces give, a word with a dash inside,
\* a short option, a long option without "=", and a --key=value pair
Tokens == {"help", "exit", "scheduler", "shutdown", "pause",
           "x", "", "a-b", "-f", "--k", "--k=v"}

\* the characters of a token
Chars(c) ==
    CASE c = "help" -> <<"h", "e", "l", "p">>
      [] c = "exit" -> <<"e", "x", "i", "t">>
      [] c = "scheduler" -> <<"s", "c", "h", "e", "d", "u", "l", "e", "r">>
      [] c = "shutdown" -> <<"s", "h", "u", "t", "d", "o", "w", "n">>
      [] c = "pause" -> <<"p", "a", "u", "s", "e">>
      [] c = "x" -> <<"x">>
      [] c = "" -> << >>
      [] c = "a-b" -> <<"a", "-", "b">>
      [] c = "-f" -> <<"-", "f">>
      [] c = "--k" -> <<"-", "-", "k">>
      [] c = "--k=v" -> <<"-", "-", "k", "=", "v">>

\* prompt.split(" ") of the prompts the model tries ("" splits into [""])
Prompts == UNION {[1..n -> Tokens] : n \in 1..MaxTokens}

\* the nodes of the command tree of main.py lines 167-181: `lambda: ...`,
\* `lambda *args, **kwargs: ...`, None, and a nested dict
OpNoArgs == [kind |-> "op", params |-> "none"]
OpAnyArgs == [kind |-> "op", params |-> "any"]
NoneNode == [kind |-> "none"]
Group(children) == [kind |-> "group", children |-> children]

\* the tree is built after scheduler.start(): scheduler.running is True, so
\* "shutdown" is the lambda that takes any arguments and "start" the one that
\* takes none
SchedulerDict ==
    [list |-> OpNoArgs, shutdown |-> OpAnyArgs, start |-> OpNoArgs,
     pause |-> OpNoArgs, resume |-> OpNoArgs]
CommandDict ==
    Group([help |-> NoneNode, exit |-> OpNoArgs, scheduler |-> Group(SchedulerDict)])

\* line 43: (c == "" or c[0] != "-") and (len(c) < 2 or c[1] != "-")
Positional(c) ==
    LET s == Chars(c)
    IN /\ (s = << >> \/ s[1] # "-")
       /\ (Len(s) < 2 \/ s[2] # "-")

\* line 46: c.startswith("--") and "=" in c
Keyword(c) ==
    LET s == Chars(c)
    IN /\ Len(s) >= 2 /\ s[1] = "-" /\ s[2] = "-"
       /\ \E i \in 1..Len(s) : s[i] = "="

\* c.lstrip("--"): every leading "-" goes
RECURSIVE LStrip(_)
LStrip(s) == IF s # << >> /\ s[1] = "-" THEN LStrip(Tail(s)) ELSE s

\* s.split("=")
RECURSIVE Split(_)
Split(s) ==
    IF \A i \in 1..Len(s) : s[i] # "=" THEN <<s>>
    ELSE LET i == CHOOSE i \in 1..Len(s) :
                      s[i] = "=" /\ \A j \in 1..(i - 1) : s[j] # "="
         IN <<SubSeq(s, 1, i - 1)>> \o Split(SubSeq(s, i + 1, Len(s)))

\* line 47: {c.lstrip("--").split("=")[0]: c.lstrip("--").split("=")[1]
\* for c in commands}; a key given twice keeps its last value
KwKey(c) == Split(LStrip(Chars(c)))[1]
KwValue(c) == Split(LStrip(Chars(c)))[2]
Kwargs(commands) ==
    [k \in {KwKey(commands[i]) : i \in 1..Len(commands)} |->
        LET i == CHOOSE i \in 1..Len(commands) :
                     /\ KwKey(commands[i]) = k
                     /\ \A j \in (i + 1)..Len(commands) : KwKey(commands[j]) # k
        IN KwValue(commands[i])]

NoResult == [kind |-> "idle", op |-> << >>, args |-> << >>, kwargs |-> << >>,
             keys |-> {}]

\* next_level(*args, **kwargs): the lambda runs, or the call raises TypeError
\* because `lambda:` takes no argument
Call(op, next_level, args, kwargs) ==
    [NoResult EXCEPT
        !.kind = IF next_level.params = "any"
                    \/ (args = << >> /\ DOMAIN kwargs = {})
                    THEN "invoked" ELSE "type_error",
        !.op = op, !.args = args, !.kwargs = kwargs]

\* lines 30-53: the loop of parse, with `path` the keys of the dicts that
\* current_level was reached through
RECURSIVE ParseLoop(_, _, _, _)
ParseLoop(current_level, commands, is_first, path) ==
    IF Len(commands) = 0 THEN [NoResult EXCEPT !.kind = "none"]
    ELSE
      LET subcmd == Head(commands)
          rest == Tail(commands)
      IN IF /\ current_level.kind = "group"
            /\ DOMAIN current_level.children # {}
            /\ subcmd \in DOMAIN current_level.children
            THEN LET next_level == current_level.children[subcmd]
                 IN IF subcmd = "help" /\ is_first
                       THEN [NoResult EXCEPT !.kind = "help",
                                             !.keys = DOMAIN current_level.children]
                    ELSE IF next_level.kind = "op"
                       THEN IF \A i \in 1..Len(rest) : Positional(rest[i])
                               THEN Call(Append(path, subcmd), next_level, rest, << >>)
                            ELSE IF \A i \in 1..Len(rest) : Keyword(rest[i])
                               THEN Call(Append(path, subcmd), next_level, << >>,
                                         Kwargs(rest))
                            ELSE ParseLoop(current_level, rest, FALSE, path)
                    ELSE ParseLoop(next_level, rest, FALSE, Append(path, subcmd))
            ELSE [NoResult EXCEPT !.kind = "syntax_error"]

\* result = self.parser.parse(prompt)
Parse ==
    /\ result.kind = "idle"
    /\ result' = ParseLoop(CommandDict, prompt, TRUE, << >>)
    /\ UNCHANGED <<prompt, jobVars, retryVars, repoVars, diffVars, ctlVars, regVars>>

InitParse ==
    /\ InitJobs /\ push_service = TRUE
    /\ RetryIdle /\ RepoIdle /\ DiffIdle /\ CtlIdle /\ RegIdle
    /\ prompt \in Prompts
    /\ result = NoResult

SpecParse == InitParse /\ [][Parse]_vars

(* ========================= claims: SpecParse ========================== *)

\* the position in toks of the token that completes a path from the root
\* through groups to a leaf operation, 0 when there is no such path
RECURSIVE LeafIndex(_, _, _)
LeafIndex(level, toks, i) ==
    IF i > Len(toks) THEN 0
    ELSE IF level.kind # "group" THEN 0
    ELSE IF toks[i] \notin DOMAIN level.children THEN 0
    ELSE LET n == level.children[toks[i]]
         IN IF n.kind = "op" THEN i ELSE LeafIndex(n, toks, i + 1)

\* the tokens that follow the leaf operation of the prompt
Trailing == SubSeq(prompt, LeafIndex(CommandDict, prompt, 1) + 1, Len(prompt))

\* the two argument forms: a token that does not begin with "-", and a
\* --key=value token
PositionalForm(c) == Chars(c) = << >> \/ Chars(c)[1] # "-"
KeywordForm(c) ==
    LET s == Chars(c)
    IN /\ Len(s) >= 2 /\ s[1] = "-" /\ s[2] = "-"
       /\ \E i \in 3..Len(s) : s[i] = "="

MixedForms(tr) ==
    \/ /\ \E i \in 1..Len(tr) : PositionalForm(tr[i])
       /\ \E i \in 1..Len(tr) : KeywordForm(tr[i])
    \/ \E i \in 1..Len(tr) : ~PositionalForm(tr[i]) /\ ~KeywordForm(tr[i])

\* C19: a prompt whose path reaches a leaf operation and whose trailing
\* tokens mix the positional and the --key=value form, or hold a token of
\* neither form, is answered with SyntaxError: no operation is called.
C19_MixedFormsRejected ==
    (/\ result.kind # "idle"
     /\ LeafIndex(CommandDict, prompt, 1) > 0
     /\ MixedForms(Trailing))
        => result.kind = "syntax_error"

\* C20: a prompt whose tokens form no path from the root to a leaf operation
\* (an unknown token at some level, the empty prompt, a path that stops at a
\* group) is answered with SyntaxError: no operation is called. Prompts that
\* begin with `help` are left to the help rule.
C20_UnresolvablePathRejected ==
    (/\ result.kind # "idle"
     /\ prompt[1] # "help"
     /\ LeafIndex(CommandDict, prompt, 1) = 0)
        => result.kind = "syntax_error"

\* the group at which the prompt asks for help: the one reached by following
\* the tokens through groups up to a token `help`; NoneNode when the prompt
\* does not ask for help in this way
RECURSIVE HelpLevel(_, _, _)
HelpLevel(level, toks, i) ==
    IF i > Len(toks) THEN NoneNode
    ELSE IF level.kind # "group" THEN NoneNode
    ELSE IF toks[i] = "help" THEN level
    ELSE IF toks[i] \notin DOMAIN level.children THEN NoneNode
    ELSE HelpLevel(level.children[toks[i]], toks, i + 1)

\* C21: `help` as the first token at a level of the command tree (the root,
\* or a group the preceding tokens descended into) returns the keys of
\* exactly that level, and no operation is called.
C21_HelpAtEveryLevel ==
    (result.kind # "idle" /\ HelpLevel(CommandDict, prompt, 1).kind = "group")
        => /\ result.kind = "help"
           /\ result.keys = DOMAIN HelpLevel(CommandDict, prompt, 1).children

\* the key and the value of a --key=value token: what stands between the
\* leading "--" and the first "=", and what stands after that "="
PairKey(c) ==
    LET s == Chars(c)
        i == CHOOSE i \in 3..Len(s) : s[i] = "=" /\ \A j \in 3..(i - 1) : s[j] # "="
    IN SubSeq(s, 3, i - 1)
PairValue(c) ==
    LET s == Chars(c)
        i == CHOOSE i \in 3..Len(s) : s[i] = "=" /\ \A j \in 3..(i - 1) : s[j] # "="
    IN SubSeq(s, i + 1, Len(s))

\* parse called the leaf operation of the prompt with these arguments
CalledLeafWith(args, kwargs) ==
    /\ result.kind \in {"invoked", "type_error"}
    /\ result.op = SubSeq(prompt, 1, LeafIndex(CommandDict, prompt, 1))
    /\ result.args = args
    /\ result.kwargs = kwargs

\* C22: when the path reaches a leaf operation and no trailing token begins
\* with "-", the operation is called with the trailing tokens as positional
\* arguments in their order; when every trailing token is a --key=value
\* pair, it is called with those pairs as keyword arguments.
C22_TrailingTokensPassed ==
    (result.kind # "idle" /\ LeafIndex(CommandDict, prompt, 1) > 0)
        => /\ (\A i \in 1..Len(Trailing) : PositionalForm(Trailing[i]))
                 => CalledLeafWith(Trailing, << >>)
           /\ (/\ Len(Trailing) > 0
               /\ \A i \in 1..Len(Trailing) : KeywordForm(Trailing[i]))
                 => CalledLeafWith(<< >>,
                        [k \in {PairKey(Trailing[i]) : i \in 1..Len(Trailing)} |->
                            PairValue(CHOOSE c \in {Trailing[i] : i \in 1..Len(Trailing)} :
                                          PairKey(c) = k)])

(* ===== SpecDiff: summarize_repository_changes_since, diff_analysis ===== *)

\* the most commits a fetch returns
MaxCommits == 3

\* full commit ids (two characters stand for forty), the author name, and the
\* commit messages the model tries: one line, and two lines
Shas == {<<"a", "1">>, <<"b", "2">>, <<"c", "3">>, <<"d", "4">>}
AuthorName == <<"z">>
Messages == {<<(<<"f", "i", "x">>)>>, <<(<<"f", "i", "x">>), (<<"m", "o", "r", "e">>)>>}

\* what the host returns, newest first: commits with distinct ids
CommitLists ==
    UNION {{cs \in [1..n -> [sha : Shas, message : {m}]] :
               \A i \in 1..n, j \in 1..n : i # j => cs[i].sha # cs[j].sha} :
           n \in 0..MaxCommits, m \in Messages}

\* github_client.py line 142:
\* f"Commit {sha} by {name}: {message}\n", as the lines it makes
RecordLines(c) ==
    <<(<<"C", "o", "m", "m", "i", "t", " ">> \o c.sha \o <<" ", "b", "y", " ">>
          \o AuthorName \o <<":", " ">> \o c.message[1])>>
        \o Tail(c.message)

\* str(await client.get_commit_messages_since(...)).splitlines()
RECURSIVE FetchedLines(_)
FetchedLines(cs) ==
    IF cs = << >> THEN << >> ELSE RecordLines(Head(cs)) \o FetchedLines(Tail(cs))

\* s[a:b] of Python, for 0 <= a and b <= len(s)
Slice(s, a, b) == SubSeq(s, a + 1, b)

\* s.strip(), for the blank
RECURSIVE Strip(_)
Strip(s) ==
    IF s # << >> /\ s[1] = " " THEN Strip(Tail(s))
    ELSE IF s # << >> /\ s[Len(s)] = " " THEN Strip(SubSeq(s, 1, Len(s) - 1))
    ELSE s

\* commit.startswith("Commit ")
IsCommitLine(c) == Len(c) >= 7 /\ Slice(c, 0, 7) = <<"C", "o", "m", "m", "i", "t", " ">>

\* lines 72-75: for i in range(7, len(commit) - 2):
\*                  if commit[i:i+3] == "by ": parent_sha = commit[8:i]; break
ByPositions(c) == {i \in 7..(Len(c) - 3) : Slice(c, i, i + 3) = <<"b", "y", " ">>}
ParentShaOf(c, parent_sha_) ==
    IF ByPositions(c) = {} THEN parent_sha_
    ELSE LET i == CHOOSE i \in ByPositions(c) : \A k \in ByPositions(c) : i <= k
         IN Slice(c, 8, i)

\* what compare_two_commits and generate(analysis_prompt, diff) return when
\* they return a text
DiffOf(base, head) == <<"d", "i", "f", "f", " ">> \o base \o <<".", ".", ".">> \o head
AnalysisOf(diff) == <<"a", "n", "a", "l", "y", "s", "i", "s", " ">> \o diff

\* line 62: the fetch returned
DiffFetch ==
    /\ dpc = "fetch"
    /\ commits_data' = FetchedLines(commits)
    /\ line_no' = 1
    /\ dpc' = "loop"
    /\ UNCHANGED <<commits, commit, commit_sha, parent_sha, compare_calls,
                   analysis_calls, final_input, jobVars, retryVars, repoVars, ctlVars,
                   regVars, parseVars>>

\* lines 66-79: one pass of `for commit in commits_data`, with the outcome
\* of compare_two_commits (cmp) and of generate (gen) where they are called.
\* Nothing catches an exception of either; `commit = extracted_diff + "\n" +
\* commit` binds the loop variable and leaves commits_data as it is.
DiffIteration(cmp, gen) ==
    /\ dpc = "loop"
    /\ line_no <= Len(commits_data)
    /\ LET c == Strip(commits_data[line_no])
           commit_sha1 == IF IsCommitLine(c) /\ Len(parent_sha) > 0
                             THEN parent_sha ELSE commit_sha
           parent_sha1 == IF IsCommitLine(c) THEN ParentShaOf(c, parent_sha)
                                             ELSE parent_sha
           compares == Len(parent_sha1) > 0 /\ Len(commit_sha1) > 0
           diff == IF compares /\ cmp = "text" THEN DiffOf(parent_sha1, commit_sha1)
                                               ELSE << >>
           analyses == Len(diff) > 0
           extracted_diff == IF analyses /\ gen = "text" THEN AnalysisOf(diff) ELSE << >>
           raises == (compares /\ cmp = "raises") \/ (analyses /\ gen = "raises")
       IN /\ commit_sha' = commit_sha1
          /\ parent_sha' = parent_sha1
          /\ compare_calls' =
                 IF compares
                    THEN Append(compare_calls,
                                [base |-> parent_sha1, head |-> commit_sha1,
                                 line |-> line_no, outcome |-> cmp])
                    ELSE compare_calls
          /\ analysis_calls' =
                 IF analyses
                    THEN Append(analysis_calls,
                                [diff |-> diff, line |-> line_no, outcome |-> gen,
                                 text |-> extracted_diff])
                    ELSE analysis_calls
          /\ commit' = IF raises THEN c
                       ELSE IF extracted_diff # << >>
                               THEN extracted_diff \o <<"\n">> \o c
                       ELSE c
          /\ dpc' = IF raises THEN "raised" ELSE "loop"
          /\ line_no' = IF raises THEN line_no ELSE line_no + 1
    /\ UNCHANGED <<commits, commits_data, final_input, jobVars, retryVars, repoVars,
                   ctlVars, regVars, parseVars>>

\* line 80: return await self.generate(summary_prompt,
\*              "Detailed commit messages:" + "\n".join(commits_data))
DiffSummarize ==
    /\ dpc = "loop"
    /\ line_no > Len(commits_data)
    /\ final_input' = {[header |-> "Detailed commit messages:", lines |-> commits_data]}
    /\ dpc' = "done"
    /\ UNCHANGED <<commits, commits_data, line_no, commit, commit_sha, parent_sha,
                   compare_calls, analysis_calls, jobVars, retryVars, repoVars,
                   ctlVars, regVars, parseVars>>

InitDiff ==
    /\ InitJobs /\ push_service = TRUE
    /\ RetryIdle /\ RepoIdle /\ CtlIdle /\ RegIdle /\ ParseIdle
    /\ commits \in CommitLists
    /\ commits_data = << >> /\ line_no = 0 /\ commit = << >>
    /\ commit_sha = << >> /\ parent_sha = << >>
    /\ compare_calls = << >> /\ analysis_calls = << >>
    /\ final_input = {} /\ dpc = "fetch"

NextDiff ==
    \/ DiffFetch
    \/ \E cmp \in {"text", "empty", "raises"}, gen \in {"text", "empty", "raises"} :
           DiffIteration(cmp, gen)
    \/ DiffSummarize

SpecDiff == InitDiff /\ [][NextDiff]_vars

(* ========================== claims: SpecDiff ========================== *)

\* C23: the text given to the final generate holds the diff analysis of every
\* line for which generate returned a non-empty diff analysis.
C23_AnalysisFoldedIntoSummaryInput ==
    dpc = "done"
        => \A k \in 1..Len(analysis_calls) :
               analysis_calls[k].outcome = "text"
                   => \E f \in final_input : \E i \in 1..Len(f.lines) :
                          Contains(f.lines[i], analysis_calls[k].text)

\* C24: a compare_two_commits call or a diff-analysis generate call that
\* raises does not end the job: the loop goes on to the next line or to the
\* final generate.
C24_DiffFailureDegrades ==
    (\/ \E k \in 1..Len(compare_calls) : compare_calls[k].outcome = "raises"
     \/ \E k \in 1..Len(analysis_calls) : analysis_calls[k].outcome = "raises")
        => dpc \in {"loop", "done"}

\* C27: every call of compare_two_commits is made for two commits that are
\* neighbours in the fetched list, with head the id of the one listed first
\* and base the id of the one listed right after it, and not before the line
\* of the second of them is reached.
C27_CompareAdjacentPairs ==
    \A k \in 1..Len(compare_calls) :
        \E i \in 1..(Len(commits) - 1) :
            /\ compare_calls[k].head = commits[i].sha
            /\ compare_calls[k].base = commits[i + 1].sha
            /\ compare_calls[k].line > Len(FetchedLines(SubSeq(commits, 1, i)))

\* the ids of the fetched commits
FetchedIds == {commits[i].sha : i \in 1..Len(commits)}

\* C30: the id taken from a line `Commit <id> by <author>: <message>` is
\* <id> itself, so parent_sha and commit_sha, once set, and the base and head
\* of every compare_two_commits call are ids of fetched commits.
C30_ExtractedIdIsCommitId ==
    /\ parent_sha # << >> => parent_sha \in FetchedIds
    /\ commit_sha # << >> => commit_sha \in FetchedIds
    /\ \A k \in 1..Len(compare_calls) :
           /\ compare_calls[k].base \in FetchedIds
           /\ compare_calls[k].head \in FetchedIds

(* ==================== claims: SpecPush (generate) ===================== *)

\* C25: generate is called at most once in an invocation, and an invocation
\* whose generate raised ended right there: one call of generate, no call of
\* the push service.
C25_GenerateNotRetried ==
    /\ \A t \in tasks : t.generates <= 1
    /\ \A j \in Jobs :
           /\ last[j].generates <= 1
           /\ last[j].outcome = "generate_error"
                 => /\ last[j].generates = 1
                    /\ last[j].pushes = 0
                    /\ last[j].pushed = << >>

C25_Witness ==
    \E j \in Jobs :
        /\ push_service
        /\ last[j].outcome = "generate_error"
        /\ last[j].fetched = "nonempty"
        /\ last[j].generates = 1
        /\ TasksOf(j) = {}

(* ==================== claims: SpecRetry (counts) ====================== *)

\* C26: the wrapper calls the function at most max_retries + 1 times and
\* sleeps at most max_retries times; when every call raised
\* RateLimitException it has made exactly max_retries + 1 calls and
\* max_retries sleeps and raises the exception of the last call; when a call
\* returns, the wrapper returns and that call was the last one.
C26_CallsAndSleepsBounded ==
    /\ calls <= max_retries + 1
    /\ Len(slept) <= max_retries
    /\ (/\ rpc # "call"
        /\ Len(errors) = calls
        /\ \A k \in 1..Len(errors) : errors[k].kind = "rate_limit")
           => /\ rpc = "raised"
              /\ calls = max_retries + 1
              /\ Len(slept) = max_retries
              /\ raised = {errors[calls]}
    /\ rpc = "returned"
           => /\ calls = Len(errors) + 1
              /\ Len(slept) = Len(errors)
              /\ raised = {}

\* two RateLimitExceptions, two sleeps, and the last call the wrapper had
\* left returned
C26_Witness ==
    /\ max_retries = 2
    /\ rpc = "returned"
    /\ calls = 3
    /\ Len(errors) = 2
    /\ Len(slept) = 2

(* ================ claims: SpecRegister (malformed cron) =============== *)

\* the job definition would be registered if it stood alone
ValidJob(cfg) == ~InvalidJob(cfg)

\* the job definition reaches the cron parser and fails there
MalformedCronJob(cfg) ==
    /\ "cron" \in DOMAIN cfg /\ cfg.cron # << >>
    /\ "type" \in DOMAIN cfg /\ cfg.type \in {"commits", "issues", "pull_requests"}
    /\ ~CronParses(cfg.cron)

\* C28: when the job mapping holds a definition with a malformed cron
\* expression, registration ends either with every valid job of the mapping
\* registered or with none registered.
C28_MalformedCronAllOrNothing ==
    (/\ reg_pc # "start"
     /\ \E i \in 1..Len(jobs_cfg) : MalformedCronJob(jobs_cfg[i].cfg))
        => \/ registered = {jobs_cfg[i].name :
                                i \in {k \in 1..Len(jobs_cfg) : ValidJob(jobs_cfg[k].cfg)}}
           \/ registered = {}

(* ============ SpecCmd: CommandPrompt.run on the scheduler ============= *)

\* the prompts `scheduler start`, `scheduler shutdown`, `scheduler pause`
\* and `scheduler resume`, as prompt.split(" ")
StartPrompt == <<"scheduler", "start">>
ShutdownPrompt == <<"scheduler", "shutdown">>
PausePrompt == <<"scheduler", "pause">>
ResumePrompt == <<"scheduler", "resume">>

\* line 80-81: the operation returned text, `print(result)`
Answer(op, text) == [kind |-> "invoked", op |-> op, text |-> text]

\* line 84-85: the operation raised, `logging.error(f"Error: {e}")`
Raised(op, exc) == [kind |-> "error", op |-> op, text |-> exc]

\* line 175, `"start": ... if not scheduler.running else lambda: "Scheduler is
\* already running"`: the conditional expression is evaluated once, when the
\* dict is built after scheduler.start() of line 165, so the entry is the
\* second lambda for the life of the prompt and never touches the scheduler
RunStart ==
    /\ prompt' = StartPrompt
    /\ result' = Answer(StartPrompt, "Scheduler is already running")
    /\ UNCHANGED <<ctlVars, jobVars, retryVars, repoVars, diffVars, regVars>>

\* line 174, `"shutdown": (lambda *args, **kwargs: scheduler.shutdown(...) or
\* "Shuting down scheduler...") if scheduler.running else ...`: the entry is
\* the first lambda for the life of the prompt. On a scheduler that was shut
\* down, scheduler.shutdown() raises SchedulerNotRunningError, which
\* CommandPrompt.run logs, or (where the scheduler class defers shutdown to
\* its event loop) returns None and the lambda answers as before.
RunShutdown(outcome) ==
    /\ prompt' = ShutdownPrompt
    /\ IF sched # "stopped"
          THEN /\ sched' = "stopped"
               /\ at_shutdown' = {t.job : t \in tasks}
               /\ result' = Answer(ShutdownPrompt, "Shuting down scheduler...")
          ELSE /\ UNCHANGED <<sched, at_shutdown>>
               /\ result' = IF outcome = "raises"
                               THEN Raised(ShutdownPrompt, "SchedulerNotRunningError")
                               ELSE Answer(ShutdownPrompt, "Shuting down scheduler...")
    /\ UNCHANGED <<registered, pause_req, jobVars, retryVars, repoVars, diffVars,
                   regVars>>

\* line 176, `"pause": lambda: scheduler.pause() or "Pausing scheduler..."`
RunPause ==
    /\ prompt' = PausePrompt
    /\ sched' = IF sched = "running" THEN "paused" ELSE sched
    /\ result' = IF sched = "stopped"
                    THEN Raised(PausePrompt, "SchedulerNotRunningError")
                    ELSE Answer(PausePrompt, "Pausing scheduler...")
    /\ UNCHANGED <<registered, pause_req, at_shutdown, jobVars, retryVars, repoVars,
                   diffVars, regVars>>

\* line 177, `"resume": lambda: scheduler.resume() or "Resuming scheduler..."`
RunResume ==
    /\ prompt' = ResumePrompt
    /\ sched' = IF sched = "paused" THEN "running" ELSE sched
    /\ result' = IF sched = "stopped"
                    THEN Raised(ResumePrompt, "SchedulerNotRunningError")
                    ELSE Answer(ResumePrompt, "Resuming scheduler...")
    /\ UNCHANGED <<registered, pause_req, at_shutdown, jobVars, retryVars, repoVars,
                   diffVars, regVars>>

\* lines 165-167: the scheduler was started, the prompt has read nothing yet
InitCmd ==
    /\ InitJobs /\ push_service = TRUE
    /\ RetryIdle /\ RepoIdle /\ DiffIdle /\ CtlIdle /\ RegIdle
    /\ prompt = << >>
    /\ result = NoResult

NextCmd ==
    \/ RunStart
    \/ \E outcome \in {"raises", "returns"} : RunShutdown(outcome)
    \/ RunPause
    \/ RunResume
    \/ \E j \in Jobs : Fire(j)
    \/ \E j \in Jobs : FireDropped(j)
    \/ \E t \in tasks, text \in {"empty", "nonempty"} : FetchOk(t, text)
    \/ \E t \in tasks : FetchRaises(t)
    \/ \E t \in tasks : GenerateOk(t, "summary")
    \/ \E t \in tasks : GenerateFails(t)
    \/ \E t \in tasks : PushOk(t)
    \/ \E t \in tasks : PushFails(t)

SpecCmd == InitCmd /\ [][NextCmd]_vars

(* =========================== claims: SpecCmd ========================== *)

\* C29: `scheduler start` and `scheduler shutdown` act on the running state
\* the scheduler has when the command is issued: `scheduler start` on a
\* scheduler that was shut down starts it again and does not answer that it
\* is already running, and `scheduler shutdown` on a scheduler that is not
\* running answers that it is not running and does not raise (a step that
\* leaves the jobs alone is a command of the prompt).
C29_StartShutdownUseCurrentState ==
    [][UNCHANGED jobVars =>
          /\ (prompt' = StartPrompt /\ sched = "stopped")
                 => /\ sched' = "running"
                    /\ result' # Answer(StartPrompt, "Scheduler is already running")
          /\ (prompt' = ShutdownPrompt /\ sched = "stopped")
                 => result' = Answer(ShutdownPrompt, "Scheduler is not running")]_vars

====
